---- MODULE Spec2Model ----
(***************************************************************************)
(* A model of tools/clang/include/clang/SPIRV/SpirvInstruction.h: the      *)
(* SPIR-V instruction hierarchy of the SPIR-V code generator.              *)
(*                                                                         *)
(* The header has no state shared between instructions: every instruction  *)
(* is a value built once by a constructor, read through accessors and      *)
(* classified through the LLVM-style classof predicates.  The model tracks *)
(* one instruction at a time (inst), the one the builder has constructed   *)
(* most recently, and the value the most recent accessor or classification *)
(* call on it returned (last); args keeps the arguments the builder gave   *)
(* the constructor.  block is the sequence of the kinds of the             *)
(* instructions appended to one basic block, which is a class of its own,  *)
(* declared and not defined by the header.  peer is a second instruction,  *)
(* constructed together with inst where a claim is about two.              *)
(*                                                                         *)
(* The constructors and the two SpirvSwitch methods are declared in the    *)
(* header and defined in a translation unit that is not part of the        *)
(* sources; they are modelled from the declarations and the specification. *)
(***************************************************************************)
EXTENDS Integers, Sequences, FiniteSets, TLC

VARIABLES inst, args, last, block, peer

vars == <<inst, args, last, block, peer>>

----------------------------------------------------------------------------
(* Bounds of the model.                                                    *)

\* Largest number of (literal, block) entries of a switch table.
MaxCases == 3
\* Result identifiers handed to constructors are 0..MaxResultId.
MaxResultId == 1
\* Largest number of optional operand arguments of an image instruction
\* that are non-null in one construction.
MaxImageOperands == 2
\* Largest number of bits set in the operands mask handed to an image
\* instruction's constructor.
MaxMaskBits == 2
\* Member indices handed to a decoration's constructor are 0..MaxMemberIndex.
MaxMemberIndex == 1
\* Largest number of parameters of an execution mode or a decoration.
MaxParams == 2
\* Largest number of instructions appended to the basic block.
MaxBlockLen == 4

----------------------------------------------------------------------------
(* Values the builder passes to constructors.                              *)

\* The null pointer.
NULL == "nullptr"
\* Non-null SpirvInstruction* values.
Operands == {"%a", "%b"}
\* Non-null SpirvBasicBlock* values.
Blocks == {"A", "B", "D"}
\* Switch literals that appear in tables, and one that never does.
Literals == {1, 2, 5}
ProbeLiterals == Literals \cup {9}
ResultIds == 0..MaxResultId
ResultTypes == {"float"}
SourceLocs == {"loc"}
\* QualType() of an instruction without a result.
NoType == "void"
\* An argument the caller leaves to its default.
Omitted == "omitted"
\* The argument a parameter with default d receives.
DefaultArg(a, d) == IF a = Omitted THEN d ELSE a
\* uint32_t parameters of execution modes and decorations.
ParamValues == {1, 2}
ParamLists == UNION { [ 1..n -> ParamValues ] : n \in 0..MaxParams }
MemberIndices == 0..MaxMemberIndex
StorageClasses == { "Function", "Private" }
Decorations == { "Offset" }
ExecutionModes == { "LocalSize" }
EntryPoints == { "main" }
DebugNames == { "x", "y" }

----------------------------------------------------------------------------
(* SpirvInstruction::Kind.  A C++ enumerator without an initialiser has    *)
(* the value of its predecessor plus one, starting at 0: the value of a    *)
(* kind is its position in the declaration.                                *)

KindOrder_decorationEarly ==
  << "Capability", "Extension", "ExtInstImport", "MemoryModel", "EntryPoint",
     "ExecutionMode", "String", "Source", "Name", "Decoration",
     "ModuleProcessed", "Type", "Constant", "Variable",
     "FunctionParameter",
     "LoopMerge", "SelectionMerge",
     "Branch", "BranchConditional", "Kill", "Return", "Switch", "Unreachable",
     "AccessChain", "Atomic", "Barrier", "BinaryOp", "BitFieldExtract",
     "BitFieldInsert", "Composite", "CompositeExtract", "ExtInst",
     "FunctionCall",
     "GroupNonUniformBinaryOp", "GroupNonUniformElect",
     "GroupNonUniformUnaryOp",
     "ImageOp", "ImageQuery", "ImageSparseTexelsResident",
     "ImageTexelPointer", "Load", "SampledImage", "Select",
     "SpecConstantBinaryOp", "SpecConstantUnaryOp", "Store", "UnaryOp",
     "VectorShuffle" >>

\* The enumerators of Kind, without their IK_ prefix, in declaration order.
KindOrder ==
  << "Capability", "Extension", "ExtInstImport", "MemoryModel", "EntryPoint",
     "ExecutionMode", "String", "Source", "Name", "ModuleProcessed",
     "Decoration", "Type", "Constant", "Variable",
     "FunctionParameter",
     "LoopMerge", "SelectionMerge",
     "Branch", "BranchConditional", "Kill", "Return", "Switch", "Unreachable",
     "AccessChain", "Atomic", "Barrier", "BinaryOp", "BitFieldExtract",
     "BitFieldInsert", "Composite", "CompositeExtract", "ExtInst",
     "FunctionCall",
     "GroupNonUniformBinaryOp", "GroupNonUniformElect",
     "GroupNonUniformUnaryOp",
     "ImageOp", "ImageQuery", "ImageSparseTexelsResident",
     "ImageTexelPointer", "Load", "SampledImage", "Select",
     "SpecConstantBinaryOp", "SpecConstantUnaryOp", "Store", "UnaryOp",
     "VectorShuffle" >>

KindNames == { KindOrder[i] : i \in 1..Len(KindOrder) }

\* The numeric value of every enumerator: its position, counted from 0.
KindValue ==
  [ n \in KindNames |->
      (CHOOSE i \in 1..Len(KindOrder) : KindOrder[i] = n) - 1 ]

\* The numeric value of enumerator IK_<name>.
IK(name) == KindValue[name]

\* Every value of the enumeration.
Kinds == { IK(n) : n \in KindNames }

\* The enumerator whose value is k.
KindName(k) == KindOrder[k + 1]

IK_LoopMerge == IK("LoopMerge")
IK_SelectionMerge == IK("SelectionMerge")
IK_Branch == IK("Branch")
IK_BranchConditional == IK("BranchConditional")
IK_Unreachable == IK("Unreachable")
IK_BitFieldExtract == IK("BitFieldExtract")
IK_BitFieldInsert == IK("BitFieldInsert")
IK_GroupNonUniformBinaryOp == IK("GroupNonUniformBinaryOp")
IK_GroupNonUniformUnaryOp == IK("GroupNonUniformUnaryOp")

\* The sections of the enumeration, as its comments name them.
MetadataKindNames ==
  { "Capability", "Extension", "ExtInstImport", "MemoryModel", "EntryPoint",
    "ExecutionMode", "String", "Source", "Name", "ModuleProcessed",
    "Decoration", "Type", "Constant", "Variable" }
FunctionStructureKindNames == { "FunctionParameter" }
MergeKindNames == { "LoopMerge", "SelectionMerge" }
TerminatorKindNames ==
  { "Branch", "BranchConditional", "Kill", "Return", "Switch", "Unreachable" }
NormalKindNames ==
  KindNames \ (MetadataKindNames \cup FunctionStructureKindNames
               \cup MergeKindNames \cup TerminatorKindNames)

----------------------------------------------------------------------------
(* The class hierarchy.                                                    *)

\* Each class that has a constructor of its own (a leaf of the hierarchy),
\* with the enumerator its classof compares the kind with.
LeafClassKind ==
  [ SpirvCapability |-> "Capability",
    SpirvExtension |-> "Extension",
    SpirvExtInstImport |-> "ExtInstImport",
    SpirvMemoryModel |-> "MemoryModel",
    SpirvEntryPoint |-> "EntryPoint",
    SpirvExecutionMode |-> "ExecutionMode",
    SpirvString |-> "String",
    SpirvSource |-> "Source",
    SpirvModuleProcessed |-> "ModuleProcessed",
    SpirvDecoration |-> "Decoration",
    SpirvVariable |-> "Variable",
    SpirvFunctionParameter |-> "FunctionParameter",
    SpirvLoopMerge |-> "LoopMerge",
    SpirvSelectionMerge |-> "SelectionMerge",
    SpirvBranch |-> "Branch",
    SpirvBranchConditional |-> "BranchConditional",
    SpirvKill |-> "Kill",
    SpirvReturn |-> "Return",
    SpirvSwitch |-> "Switch",
    SpirvUnreachable |-> "Unreachable",
    SpirvAccessChain |-> "AccessChain",
    SpirvAtomic |-> "Atomic",
    SpirvBarrier |-> "Barrier",
    SpirvBinaryOp |-> "BinaryOp",
    SpirvBitFieldExtract |-> "BitFieldExtract",
    SpirvBitFieldInsert |-> "BitFieldInsert",
    SpirvComposite |-> "Composite",
    SpirvCompositeExtract |-> "CompositeExtract",
    SpirvExtInst |-> "ExtInst",
    SpirvFunctionCall |-> "FunctionCall",
    SpirvNonUniformBinaryOp |-> "GroupNonUniformBinaryOp",
    SpirvNonUniformElect |-> "GroupNonUniformElect",
    SpirvNonUniformUnaryOp |-> "GroupNonUniformUnaryOp",
    SpirvImageOp |-> "ImageOp",
    SpirvImageQuery |-> "ImageQuery",
    SpirvImageSparseTexelsResident |-> "ImageSparseTexelsResident",
    SpirvImageTexelPointer |-> "ImageTexelPointer",
    SpirvLoad |-> "Load",
    SpirvSampledImage |-> "SampledImage",
    SpirvSelect |-> "Select",
    SpirvSpecConstantBinaryOp |-> "SpecConstantBinaryOp",
    SpirvSpecConstantUnaryOp |-> "SpecConstantUnaryOp",
    SpirvStore |-> "Store",
    SpirvUnaryOp |-> "UnaryOp",
    SpirvVectorShuffle |-> "VectorShuffle" ]

LeafClasses == DOMAIN LeafClassKind

\* The classes that group several leaves and have a protected constructor.
FamilyClasses ==
  { "SpirvMerge", "SpirvTerminator", "SpirvBranching",
    "SpirvGroupNonUniformOp", "SpirvBitField" }

Classes == LeafClasses \cup FamilyClasses

\* The direct base class of a class ("class C : public B").
BaseClass(c) ==
  CASE c \in { "SpirvLoopMerge", "SpirvSelectionMerge" } -> "SpirvMerge"
    [] c = "SpirvBranching" -> "SpirvTerminator"
    [] c \in { "SpirvBranch", "SpirvBranchConditional", "SpirvSwitch" }
         -> "SpirvBranching"
    [] c \in { "SpirvKill", "SpirvReturn", "SpirvUnreachable" }
         -> "SpirvTerminator"
    [] c \in { "SpirvBitFieldExtract", "SpirvBitFieldInsert" }
         -> "SpirvBitField"
    [] c \in { "SpirvNonUniformBinaryOp", "SpirvNonUniformElect",
               "SpirvNonUniformUnaryOp" } -> "SpirvGroupNonUniformOp"
    [] OTHER -> "SpirvInstruction"

\* c is a, or derives from a (the hierarchy is at most three levels deep).
DerivesFrom(c, a) ==
  \/ c = a
  \/ BaseClass(c) = a
  \/ BaseClass(c) \in Classes /\ BaseClass(BaseClass(c)) = a
  \/ a = "SpirvInstruction"

----------------------------------------------------------------------------
(* classof: the LLVM-style RTTI predicates, on the kind of the instruction *)
(* they are given.                                                         *)

Leaf_classof_copyPaste(c, k) ==
  IF c = "SpirvBitFieldInsert" THEN k = IK_BitFieldExtract
  ELSE k = IK(LeafClassKind[c])

\* The classof of a leaf class: an exact match.
Leaf_classof(c, k) == k = IK(LeafClassKind[c])

SpirvMerge_classof_range(k) == k >= IK_LoopMerge /\ k <= IK_Branch

SpirvMerge_classof(k) == k = IK_LoopMerge \/ k = IK_SelectionMerge

SpirvTerminator_classof_toSwitch(k) == k >= IK_Branch /\ k <= IK("Switch")

SpirvTerminator_classof(k) == k >= IK_Branch /\ k <= IK_Unreachable

SpirvBranching_classof(k) == k >= IK_Branch /\ k <= IK_BranchConditional

SpirvBitField_classof(k) ==
  k = IK_BitFieldExtract \/ k = IK_BitFieldInsert

SpirvGroupNonUniformOp_classof_toImageOp(k) ==
  k >= IK_GroupNonUniformBinaryOp /\ k <= IK("ImageOp")

SpirvGroupNonUniformOp_classof(k) ==
  k >= IK_GroupNonUniformBinaryOp /\ k <= IK_GroupNonUniformUnaryOp

\* C::classof(inst) for an instruction whose getKind() is k.
classof(c, k) ==
  CASE c = "SpirvMerge" -> SpirvMerge_classof(k)
    [] c = "SpirvTerminator" -> SpirvTerminator_classof(k)
    [] c = "SpirvBranching" -> SpirvBranching_classof(k)
    [] c = "SpirvBitField" -> SpirvBitField_classof(k)
    [] c = "SpirvGroupNonUniformOp" -> SpirvGroupNonUniformOp_classof(k)
    [] OTHER -> Leaf_classof(c, k)

----------------------------------------------------------------------------
(* SpirvInstruction: the fields every instruction has.                     *)

\* No instruction has been constructed yet.
NoInst == [cls |-> "none"]
NoCall == [call |-> "none"]
\* No constructor has been called.
NoArgs == [ loc |-> "none" ]

Constructed == inst.cls # "none"

\* SpirvInstruction::SpirvInstruction(kind, opcode, resultType, resultId,
\* loc): the base part of an instruction of dynamic type cls.
SpirvInstruction(cls, kind, opcode, resultType, resultId, loc) ==
  [ cls |-> cls, kind |-> kind, opcode |-> opcode, resultType |-> resultType,
    resultId |-> resultId, srcLoc |-> loc, debugName |-> "" ]

getKind(i) == i.kind
getopcode(i) == i.opcode
getResultType(i) == i.resultType
getResultTypeId_resultId(i) == i.resultId
getResultTypeId(i) == 0
getResultId_typeId(i) == 0
getResultId(i) == i.resultId
getSourceLocation(i) == i.srcLoc
setDebugName_resetsId(i, name) ==
  [ i EXCEPT !.debugName = name, !.resultId = 0 ]
setDebugName_keepsFirst(i, name) ==
  IF i.debugName = "" THEN [ i EXCEPT !.debugName = name ] ELSE i
setDebugName(i, name) == [ i EXCEPT !.debugName = name ]
getDebugName(i) == i.debugName

\* r with the fields of s added (a derived class's own fields).
Extend(r, s) ==
  [ f \in DOMAIN r \cup DOMAIN s |-> IF f \in DOMAIN s THEN s[f] ELSE r[f] ]

\* What the accessors every instruction inherits from SpirvInstruction
\* return, by the constructor parameter they give back.
BaseReadBack(i) ==
  [ kind |-> getKind(i), opcode |-> getopcode(i),
    resultType |-> getResultType(i), resultId |-> getResultId(i),
    loc |-> getSourceLocation(i) ]

----------------------------------------------------------------------------
(* Control flow: SpirvBranch, SpirvBranchConditional, SpirvSwitch.         *)

\* What a caller can read through an llvm::ArrayRef of n elements whose
\* storage has been destroyed: the length is held by value, every element
\* is whatever the dead storage holds by then.
DanglingArrayRef(n) == [ 1..n -> Blocks \cup {NULL} ]

SpirvBranch(loc, target) ==
  Extend(SpirvInstruction("SpirvBranch", IK("Branch"), "OpBranch", NoType, 0,
                          loc),
         [ targetLabel |-> target ])

getTargetLabel(i) == i.targetLabel

\* "return {targetLabel};" builds the ArrayRef from a temporary
\* std::initializer_list whose array dies with the return statement.
SpirvBranch_getTargetBranches(i) == DanglingArrayRef(Len(<< i.targetLabel >>))

SpirvBranchConditional(loc, cond, trueLabel, falseLabel) ==
  Extend(SpirvInstruction("SpirvBranchConditional", IK("BranchConditional"),
                          "OpBranchConditional", NoType, 0, loc),
         [ condition |-> cond, trueLabel |-> trueLabel,
           falseLabel |-> falseLabel ])

getCondition(i) == i.condition
getTrueLabel(i) == i.trueLabel
getFalseLabel(i) == i.falseLabel

\* "return {trueLabel, falseLabel};": as for SpirvBranch.
SpirvBranchConditional_getTargetBranches(i) ==
  DanglingArrayRef(Len(<< i.trueLabel, i.falseLabel >>))

\* The tables a builder can hand to SpirvSwitch: at most MaxCases pairs
\* <<literal, block>>, literals not necessarily distinct.
SwitchTables ==
  UNION { [ 1..n -> Literals \X Blocks ] : n \in 0..MaxCases }

SpirvSwitch(loc, selector, defaultLabelId, targetsVec) ==
  Extend(SpirvInstruction("SpirvSwitch", IK("Switch"), "OpSwitch", NoType, 0,
                          loc),
         [ selector |-> selector, defaultLabel |-> defaultLabelId,
           targets |-> targetsVec ])

getSelector(i) == i.selector
getDefaultLabel_selector(i) == i.selector
getDefaultLabel(i) == i.defaultLabel
getTargets(i) == i.targets

\* The first entry of the table at or after position j whose literal is
\* lit gives the label; the default label when there is none.
RECURSIVE FindTarget(_, _, _, _)
FindTarget(targets, j, lit, dflt) ==
  IF j > Len(targets) THEN dflt
  ELSE IF targets[j][1] = lit THEN targets[j][2]
  ELSE FindTarget(targets, j + 1, lit, dflt)

getTargetLabelForLiteral(i, lit) ==
  FindTarget(getTargets(i), 1, lit, getDefaultLabel(i))

\* The method is const and returns an ArrayRef of SpirvBasicBlock *, and
\* the class has no array of SpirvBasicBlock * for it to refer to: targets
\* holds pairs.  The default label and the label of every table entry are
\* gathered in an array made during the call, which the ArrayRef outlives,
\* as in the two sibling classes: the caller reads the length and
\* whatever the dead storage holds by then.
SpirvSwitch_getTargetBranches(i) ==
  DanglingArrayRef(Len(<< getDefaultLabel(i) >>) + Len(getTargets(i)))

\* SpirvBranching::getTargetBranches is virtual: the set of values a call
\* on instruction i can give its caller.
getTargetBranches(i) ==
  CASE i.cls = "SpirvBranch" -> SpirvBranch_getTargetBranches(i)
    [] i.cls = "SpirvBranchConditional"
         -> SpirvBranchConditional_getTargetBranches(i)
    [] i.cls = "SpirvSwitch" -> SpirvSwitch_getTargetBranches(i)

----------------------------------------------------------------------------
(* SpirvAtomic.                                                            *)

OpAtomicCompareExchange == "OpAtomicCompareExchange"

\* The opcodes the class comment lists, by the operands they take.
AtomicNoValueOps ==
  { "OpAtomicLoad", "OpAtomicIIncrement", "OpAtomicIDecrement",
    "OpAtomicFlagClear", "OpAtomicFlagTestAndSet" }
AtomicValueOps ==
  { "OpAtomicStore", "OpAtomicAnd", "OpAtomicOr", "OpAtomicXor",
    "OpAtomicIAdd", "OpAtomicISub", "OpAtomicSMin", "OpAtomicUMin",
    "OpAtomicSMax", "OpAtomicUMax", "OpAtomicExchange" }
AtomicOps ==
  AtomicNoValueOps \cup AtomicValueOps \cup { OpAtomicCompareExchange }

Scopes == { "Device" }
MemorySemantics == { "MaskNone", "Acquire" }

\* The constructor without a comparator parameter.  Compare-exchange needs
\* a comparator, which this constructor cannot be given, and an opcode that
\* takes a value needs one.
SpirvAtomic1_pre(opcode, value) ==
  /\ opcode # OpAtomicCompareExchange
  /\ opcode \in AtomicValueOps => value # NULL

SpirvAtomic1(opcode, resultType, resultId, loc, pointer, scope, semantics, value) ==
  Extend(SpirvInstruction("SpirvAtomic", IK("Atomic"), opcode, resultType,
                          resultId, loc),
         [ pointer |-> pointer, scope |-> scope,
           memorySemantic |-> semantics, memorySemanticUnequal |-> "MaskNone",
           value |-> value, comparator |-> NULL ])

\* The constructor with both semantics, a value and a comparator.
\* Compare-exchange requires the value and the comparator to be non-null,
\* and an opcode that takes a value needs one.
SpirvAtomic2_pre_unchecked(opcode, value, comparator) == TRUE
SpirvAtomic2_pre(opcode, value, comparator) ==
  /\ opcode = OpAtomicCompareExchange => value # NULL /\ comparator # NULL
  /\ opcode \in AtomicValueOps => value # NULL

SpirvAtomic2(opcode, resultType, resultId, loc, pointer, scope, semanticsEqual, semanticsUnequal, value, comparator) ==
  Extend(SpirvInstruction("SpirvAtomic", IK("Atomic"), opcode, resultType,
                          resultId, loc),
         [ pointer |-> pointer, scope |-> scope,
           memorySemantic |-> semanticsEqual,
           memorySemanticUnequal |-> semanticsUnequal,
           value |-> value,
           comparator |-> IF opcode = OpAtomicCompareExchange
                          THEN comparator ELSE NULL ])

getPointer(i) == i.pointer
getScope(i) == i.scope
getMemorySemantics(i) == i.memorySemantic
getMemorySemanticsEqual(i) == i.memorySemantic
getMemorySemanticsUnequal_equal(i) == i.memorySemantic
getMemorySemanticsUnequal(i) == i.memorySemanticUnequal
hasValue_comparator(i) == i.comparator # NULL
hasValue(i) == i.value # NULL
getValue(i) == i.value
hasComparator_value(i) == i.value # NULL
hasComparator(i) == i.comparator # NULL
getComparator(i) == i.comparator

----------------------------------------------------------------------------
(* SpirvImageOp.                                                           *)

\* The bits of spv::ImageOperandsMask: the image operands the class comment
\* lists.  A mask is the set of its bits that are set.
ImageOperandBits ==
  { "Bias", "Lod", "Grad", "ConstOffset", "Offset", "ConstOffsets", "Sample",
    "MinLod" }
MaskNone == {}

\* The optional pointer parameters of the constructor, all defaulting to
\* nullptr.
ImageOptionalParams ==
  { "dref", "bias", "lod", "gradDx", "gradDy", "constOffset", "offset",
    "constOffsets", "sample", "minLod", "component", "texelToWrite" }

ImageOpcodes == { "OpImageSampleImplicitLod", "OpImageWrite" }

\* The masks and the optional arguments a builder can pass within the bounds.
ImageMasks ==
  { m \in SUBSET ImageOperandBits : Cardinality(m) <= MaxMaskBits }
ImageOptionalArgs ==
  { [ p \in ImageOptionalParams |-> IF p \in s THEN "%a" ELSE NULL ] :
      s \in { t \in SUBSET ImageOptionalParams :
                Cardinality(t) <= MaxImageOperands } }

\* The optional operand slots, by the name of their presence predicate.
ImageSlots ==
  { "dref", "bias", "lod", "grad", "constOffset", "offset", "constOffsets",
    "sample", "minLod", "component", "texelToWrite" }

\* The bit of spv::ImageOperandsMask that stands for a slot.  dref,
\* component and the texel to write are operands of the instruction
\* itself, not image operands: no member of ImageOperandBits stands for
\* them.
ImageSlotBit(slot) ==
  CASE slot = "bias" -> "Bias"
    [] slot = "lod" -> "Lod"
    [] slot = "grad" -> "Grad"
    [] slot = "constOffset" -> "ConstOffset"
    [] slot = "offset" -> "Offset"
    [] slot = "constOffsets" -> "ConstOffsets"
    [] slot = "sample" -> "Sample"
    [] slot = "minLod" -> "MinLod"
    [] OTHER -> "no bit"

\* The constructor parameters, and fields, that hold the operand or
\* operands of a slot: Grad is a pair.
ImageSlotFields(slot) ==
  IF slot = "grad" THEN { "gradDx", "gradDy" } ELSE { slot }

\* The constructor rejects arguments that break the invariant of the
\* class: for every slot that has a bit, the slot is non-null if and only
\* if its bit is set in the mask.
SpirvImageOp_pre(mask, opt) ==
  \A slot \in ImageSlots :
    ImageSlotBit(slot) \in ImageOperandBits =>
      (ImageSlotBit(slot) \in mask
         <=> \A f \in ImageSlotFields(slot) : opt[f] # NULL)

\* The constructor stores every argument in the field of its name; opt
\* holds the twelve optional pointer arguments by parameter name.
SpirvImageOp(opcode, resultType, resultId, loc, image, coordinate, mask, opt) ==
  Extend(SpirvInstruction("SpirvImageOp", IK("ImageOp"), opcode, resultType,
                          resultId, loc),
         Extend([ image |-> image, coordinate |-> coordinate,
                  operandsMask |-> mask ], opt))

getImageOperandsMask(i) == i.operandsMask

hasDref(i) == i.dref # NULL
hasBias(i) == i.bias # NULL
hasLod(i) == i.lod # NULL
hasGrad_dxOnly(i) == i.gradDx # NULL
hasGrad(i) == i.gradDx # NULL /\ i.gradDy # NULL
hasConstOffset(i) == i.constOffset # NULL
hasOffset(i) == i.offset # NULL
hasConstOffsets(i) == i.constOffsets # NULL
hasSample(i) == i.sample # NULL
hasMinLod(i) == i.minLod # NULL
hasComponent(i) == i.component # NULL
isImageWrite(i) == i.texelToWrite # NULL

\* hasX() for slot X (isImageWrite() for the texel to write).
ImageOpHasSlot(i, slot) ==
  CASE slot = "dref" -> hasDref(i)
    [] slot = "bias" -> hasBias(i)
    [] slot = "lod" -> hasLod(i)
    [] slot = "grad" -> hasGrad(i)
    [] slot = "constOffset" -> hasConstOffset(i)
    [] slot = "offset" -> hasOffset(i)
    [] slot = "constOffsets" -> hasConstOffsets(i)
    [] slot = "sample" -> hasSample(i)
    [] slot = "minLod" -> hasMinLod(i)
    [] slot = "component" -> hasComponent(i)
    [] slot = "texelToWrite" -> isImageWrite(i)

----------------------------------------------------------------------------
(* Visitor dispatch.  invokeVisitor is pure virtual in SpirvInstruction;   *)
(* a class overrides it where its body carries                             *)
(* DECLARE_INVOKE_VISITOR_FOR_CLASS.                                       *)

\* The classes that declare the override: every class of the header.
InvokeVisitorClasses_switchInherits == Classes \ { "SpirvSwitch" }
InvokeVisitorClasses == Classes

\* The class whose invokeVisitor a call on an object of dynamic type c
\* runs: the most derived class on c's chain of bases that overrides it.
FinalOverrider(c) ==
  IF c \in InvokeVisitorClasses THEN c
  ELSE IF BaseClass(c) \in InvokeVisitorClasses THEN BaseClass(c)
  ELSE IF BaseClass(c) \in Classes
          /\ BaseClass(BaseClass(c)) \in InvokeVisitorClasses
       THEN BaseClass(BaseClass(c))
  ELSE "SpirvInstruction"

\* cls::invokeVisitor(v): the visitor methods it invokes, in order.  The
\* override of class cls hands `this`, a cls *, to the visitor.
invokeVisitor(i) == << FinalOverrider(i.cls) >>

----------------------------------------------------------------------------
(* llvm::Optional<T>.                                                      *)

None == [ hasVal |-> FALSE ]
Some(v) == [ hasVal |-> TRUE, val |-> v ]

Optional_hasValue(o) == o.hasVal

\* What a getter can do: abort the program (mayAbort), or return one of
\* vals.
Returns(v) == [ mayAbort |-> FALSE, vals |-> { v } ]

\* Optional::getValue() asserts that a value is present and reads the
\* storage.  On an empty Optional the assertion aborts a build that has
\* assertions, and a build without them reads storage that was never
\* written: any value.
Optional_getValue(o, range) ==
  IF o.hasVal THEN Returns(o.val) ELSE [ mayAbort |-> TRUE, vals |-> range ]

----------------------------------------------------------------------------
(* SpirvExecutionMode, SpirvDecoration, SpirvVariable, SpirvReturn.        *)

\* OpExecutionMode and OpExecutionModeId: the constructor has no field to
\* keep usesIdParams in.
SpirvExecutionMode(loc, entryPoint, em, params, usesIdParams) ==
  Extend(SpirvInstruction("SpirvExecutionMode", IK("ExecutionMode"),
                          IF usesIdParams THEN "OpExecutionModeId"
                                          ELSE "OpExecutionMode",
                          NoType, 0, loc),
         [ entryPoint |-> entryPoint, execMode |-> em, params |-> params ])

getEntryPoint(i) == i.entryPoint
getExecutionMode(i) == i.execMode
getParams_reversed(i) ==
  [ j \in 1..Len(i.params) |-> i.params[Len(i.params) + 1 - j] ]
getParams(i) == i.params

\* What the accessors of an execution mode return, the inherited ones
\* included, by the constructor parameter they give back.  The class
\* declares getEntryPoint(), getExecutionMode() and getParams() and nothing
\* that returns a bool.
ExecutionModeAccessors(i) ==
  Extend(BaseReadBack(i),
         [ entryPoint |-> getEntryPoint(i), em |-> getExecutionMode(i),
           params |-> getParams(i) ])

\* OpDecorate and OpMemberDecorate.
SpirvDecoration(loc, target, decor, params, index) ==
  Extend(SpirvInstruction("SpirvDecoration", IK("Decoration"),
                          IF index.hasVal THEN "OpMemberDecorate"
                                          ELSE "OpDecorate",
                          NoType, 0, loc),
         [ target |-> target, decoration |-> decor, index |-> index,
           params |-> params ])

getTarget(i) == i.target
getDecoration(i) == i.decoration
isMemberDecoration_nonZero(i) ==
  Optional_hasValue(i.index) /\ i.index.val # 0
isMemberDecoration(i) == Optional_hasValue(i.index)
getMemberIndex(i) == Optional_getValue(i.index, MemberIndices)

\* OpVariable.
SpirvVariable(resultType, resultId, loc, sc, initializerId) ==
  Extend(SpirvInstruction("SpirvVariable", IK("Variable"), "OpVariable",
                          resultType, resultId, loc),
         [ storageClass |-> sc, initializer |-> initializerId ])

hasInitializer_storageClass(i) == i.storageClass # "Function"
hasInitializer(i) == i.initializer # NULL
getInitializer(i) == i.initializer
getStorageClass(i) == i.storageClass

\* OpBitFieldSExtract and OpBitFieldUExtract: the constructor has no field
\* to keep isSigned in but the opcode.
SpirvBitFieldExtract(resultType, resultId, loc, base, offset, count, isSigned) ==
  Extend(SpirvInstruction("SpirvBitFieldExtract", IK_BitFieldExtract,
                          IF isSigned THEN "OpBitFieldSExtract"
                                      ELSE "OpBitFieldUExtract",
                          resultType, resultId, loc),
         [ base |-> base, offset |-> offset, count |-> count ])

getBase(i) == i.base
getOffset(i) == i.offset
getCount(i) == i.count
\* isSigned() returns a uint32_t: the comparison, converted.
isSigned_unsigned(i) ==
  IF getopcode(i) = "OpBitFieldUExtract" THEN 1 ELSE 0
isSigned(i) == IF getopcode(i) = "OpBitFieldSExtract" THEN 1 ELSE 0

\* OpReturn and OpReturnValue.
SpirvReturn(loc, retVal) ==
  Extend(SpirvInstruction("SpirvReturn", IK("Return"),
                          IF retVal # NULL THEN "OpReturnValue"
                                           ELSE "OpReturn",
                          NoType, 0, loc),
         [ returnValue |-> retVal ])

hasReturnValue_always(i) == TRUE
hasReturnValue(i) == i.returnValue # NULL
getReturnValue(i) == i.returnValue

----------------------------------------------------------------------------
(* Optional fields: a presence predicate hasX() and a getter getX().       *)

OptionalFields(cls) ==
  CASE cls = "SpirvAtomic" -> { "value", "comparator" }
    [] cls = "SpirvDecoration" -> { "memberIndex" }
    [] cls = "SpirvVariable" -> { "initializer" }
    [] cls = "SpirvReturn" -> { "returnValue" }
    [] OTHER -> {}

\* hasX() of instruction i for optional field x.
HasField(i, x) ==
  CASE x = "value" -> hasValue(i)
    [] x = "comparator" -> hasComparator(i)
    [] x = "memberIndex" -> isMemberDecoration(i)
    [] x = "initializer" -> hasInitializer(i)
    [] x = "returnValue" -> hasReturnValue(i)

\* getX() of instruction i for optional field x.
GetField(i, x) ==
  CASE x = "value" -> Returns(getValue(i))
    [] x = "comparator" -> Returns(getComparator(i))
    [] x = "memberIndex" -> getMemberIndex(i)
    [] x = "initializer" -> Returns(getInitializer(i))
    [] x = "returnValue" -> Returns(getReturnValue(i))

----------------------------------------------------------------------------
(* Reading an instruction back through its accessors.                      *)

\* What the typed accessors of instruction i return, by the constructor
\* parameter each one gives back.  An llvm::Optional is read through its
\* presence predicate and then its getter; isSigned() returns a uint32_t,
\* which converts to the bool it was computed from.
ReadBack(i) ==
  CASE i.cls = "SpirvBranch" ->
         Extend(BaseReadBack(i), [ target |-> getTargetLabel(i) ])
    [] i.cls = "SpirvBranchConditional" ->
         Extend(BaseReadBack(i),
                [ cond |-> getCondition(i), trueLabel |-> getTrueLabel(i),
                  falseLabel |-> getFalseLabel(i) ])
    [] i.cls = "SpirvSwitch" ->
         Extend(BaseReadBack(i),
                [ selector |-> getSelector(i),
                  defaultLabel |-> getDefaultLabel(i),
                  targetsVec |-> getTargets(i) ])
    [] i.cls = "SpirvAtomic" ->
         Extend(BaseReadBack(i),
                [ pointer |-> getPointer(i), scope |-> getScope(i),
                  semantics |-> getMemorySemantics(i),
                  semanticsEqual |-> getMemorySemanticsEqual(i),
                  semanticsUnequal |-> getMemorySemanticsUnequal(i),
                  value |-> getValue(i), comparator |-> getComparator(i) ])
    [] i.cls = "SpirvImageOp" ->
         Extend(BaseReadBack(i),
                [ image |-> i.image, coordinate |-> i.coordinate,
                  mask |-> getImageOperandsMask(i),
                  opt |-> [ p \in ImageOptionalParams |-> i[p] ] ])
    [] i.cls = "SpirvExecutionMode" -> ExecutionModeAccessors(i)
    [] i.cls = "SpirvDecoration" ->
         Extend(BaseReadBack(i),
                [ target |-> getTarget(i), decor |-> getDecoration(i),
                  params |-> getParams(i),
                  index |-> IF isMemberDecoration(i)
                            THEN Some(CHOOSE v \in getMemberIndex(i).vals :
                                        TRUE)
                            ELSE None ])
    [] i.cls = "SpirvVariable" ->
         Extend(BaseReadBack(i),
                [ sc |-> getStorageClass(i),
                  initializerId |-> getInitializer(i) ])
    [] i.cls = "SpirvReturn" ->
         Extend(BaseReadBack(i), [ retVal |-> getReturnValue(i) ])
    [] i.cls = "SpirvBitFieldExtract" ->
         Extend(BaseReadBack(i),
                [ base |-> getBase(i), offset |-> getOffset(i),
                  count |-> getCount(i), isSigned |-> isSigned(i) # 0 ])
    [] OTHER -> BaseReadBack(i)

----------------------------------------------------------------------------
(* The remaining leaf classes: their operands are not modelled.            *)

ModelledLeafClasses ==
  { "SpirvBranch", "SpirvBranchConditional", "SpirvSwitch", "SpirvAtomic",
    "SpirvImageOp", "SpirvExecutionMode", "SpirvDecoration", "SpirvVariable",
    "SpirvReturn", "SpirvBitFieldExtract" }
OtherLeafClasses == LeafClasses \ ModelledLeafClasses

\* The leaf classes whose constructor takes a result type and a result id.
ResultClasses ==
  { "SpirvVariable", "SpirvFunctionParameter", "SpirvAccessChain",
    "SpirvAtomic", "SpirvBinaryOp", "SpirvBitFieldExtract",
    "SpirvBitFieldInsert", "SpirvComposite", "SpirvCompositeExtract",
    "SpirvExtInst", "SpirvFunctionCall", "SpirvNonUniformBinaryOp",
    "SpirvNonUniformElect", "SpirvNonUniformUnaryOp", "SpirvImageOp",
    "SpirvImageQuery", "SpirvImageSparseTexelsResident",
    "SpirvImageTexelPointer", "SpirvLoad", "SpirvSampledImage", "SpirvSelect",
    "SpirvSpecConstantBinaryOp", "SpirvSpecConstantUnaryOp", "SpirvUnaryOp",
    "SpirvVectorShuffle" }

\* The kind a leaf class's constructor hands to SpirvInstruction: the one
\* its own classof accepts.
ClassKind(c) == IK(LeafClassKind[c])

\* The constructor of leaf class c, its operands left out.
LeafInstruction(c, resultType, resultId, loc) ==
  SpirvInstruction(c, ClassKind(c), "Op" \o LeafClassKind[c], resultType,
                   resultId, loc)

\* Kinds of the enumeration that no class of the header is constructed
\* with: their classes reach SpirvInstruction's protected constructor from
\* elsewhere.
ForeignKindNames == KindNames \ { LeafClassKind[c] : c \in LeafClasses }

----------------------------------------------------------------------------
(* Actions: the builder constructs the instruction.  An instruction is     *)
(* constructed once; a constructor whose precondition fails constructs     *)
(* nothing.                                                                *)

NewBranch ==
  /\ ~Constructed
  /\ UNCHANGED << block, peer >>
  /\ \E loc \in SourceLocs, target \in Blocks :
    /\ inst' = SpirvBranch(loc, target)
    /\ args' = [ loc |-> loc, target |-> target ]
    /\ last' = NoCall

NewBranchConditional ==
  /\ ~Constructed
  /\ UNCHANGED << block, peer >>
  /\ \E loc \in SourceLocs, cond \in Operands, t \in Blocks, f \in Blocks :
    /\ inst' = SpirvBranchConditional(loc, cond, t, f)
    /\ args' = [ loc |-> loc, cond |-> cond, trueLabel |-> t,
                 falseLabel |-> f ]
    /\ last' = NoCall

NewSwitch ==
  /\ ~Constructed
  /\ UNCHANGED << block, peer >>
  /\ \E loc \in SourceLocs, selector \in Operands, dflt \in Blocks,
     table \in SwitchTables :
    /\ inst' = SpirvSwitch(loc, selector, dflt, table)
    /\ args' = [ loc |-> loc, selector |-> selector, defaultLabel |-> dflt,
                 targetsVec |-> table ]
    /\ last' = NoCall

NewAtomic1 ==
  /\ ~Constructed
  /\ UNCHANGED << block, peer >>
  /\ \E opcode \in AtomicOps, ty \in ResultTypes, id \in ResultIds,
     loc \in SourceLocs, pointer \in Operands, scope \in Scopes,
     sem \in MemorySemantics, value \in Operands \cup {NULL} :
    /\ SpirvAtomic1_pre(opcode, value)
    /\ inst' = SpirvAtomic1(opcode, ty, id, loc, pointer, scope, sem, value)
    /\ args' = [ opcode |-> opcode, resultType |-> ty, resultId |-> id,
                 loc |-> loc, pointer |-> pointer, scope |-> scope,
                 semantics |-> sem, value |-> value ]
    /\ last' = NoCall

NewAtomic2 ==
  /\ ~Constructed
  /\ UNCHANGED << block, peer >>
  /\ \E opcode \in AtomicOps, ty \in ResultTypes, id \in ResultIds,
     loc \in SourceLocs, pointer \in Operands, scope \in Scopes,
     semEq \in MemorySemantics, semUneq \in MemorySemantics,
     value \in Operands \cup {NULL}, comparator \in Operands \cup {NULL} :
    /\ SpirvAtomic2_pre(opcode, value, comparator)
    /\ inst' = SpirvAtomic2(opcode, ty, id, loc, pointer, scope, semEq,
                            semUneq, value, comparator)
    /\ args' = [ opcode |-> opcode, resultType |-> ty, resultId |-> id,
                 loc |-> loc, pointer |-> pointer, scope |-> scope,
                 semanticsEqual |-> semEq, semanticsUnequal |-> semUneq,
                 value |-> value, comparator |-> comparator ]
    /\ last' = NoCall

NewImageOp ==
  /\ ~Constructed
  /\ UNCHANGED << block, peer >>
  /\ \E opcode \in ImageOpcodes, ty \in ResultTypes, id \in ResultIds,
     loc \in SourceLocs, mask \in ImageMasks, opt \in ImageOptionalArgs :
    /\ SpirvImageOp_pre(mask, opt)
    /\ inst' = SpirvImageOp(opcode, ty, id, loc, "%a", "%b", mask, opt)
    /\ args' = [ opcode |-> opcode, resultType |-> ty, resultId |-> id,
                 loc |-> loc, image |-> "%a", coordinate |-> "%b",
                 mask |-> mask, opt |-> opt ]
    /\ last' = NoCall

NewExecutionMode ==
  /\ ~Constructed
  /\ UNCHANGED << block, peer >>
  /\ \E loc \in SourceLocs, entryPoint \in EntryPoints, em \in ExecutionModes,
     params \in ParamLists, usesIdParams \in BOOLEAN :
    /\ inst' = SpirvExecutionMode(loc, entryPoint, em, params, usesIdParams)
    /\ args' = [ loc |-> loc, entryPoint |-> entryPoint, em |-> em,
                 params |-> params, usesIdParams |-> usesIdParams ]
    /\ last' = NoCall

NewDecoration ==
  /\ ~Constructed
  /\ UNCHANGED << block, peer >>
  /\ \E loc \in SourceLocs, target \in Operands, decor \in Decorations,
     params \in ParamLists,
     index \in { None } \cup { Some(m) : m \in MemberIndices } :
    /\ inst' = SpirvDecoration(loc, target, decor, params, index)
    /\ args' = [ loc |-> loc, target |-> target, decor |-> decor,
                 params |-> params, index |-> index ]
    /\ last' = NoCall

NewVariable ==
  /\ ~Constructed
  /\ UNCHANGED << block, peer >>
  /\ \E ty \in ResultTypes, id \in ResultIds, loc \in SourceLocs,
     sc \in StorageClasses,
     initializerId \in Operands \cup { NULL, Omitted } :
    /\ inst' = SpirvVariable(ty, id, loc, sc, DefaultArg(initializerId, NULL))
    /\ args' = [ resultType |-> ty, resultId |-> id, loc |-> loc, sc |-> sc,
                 initializerId |-> initializerId ]
    /\ last' = NoCall

NewReturn ==
  /\ ~Constructed
  /\ UNCHANGED << block, peer >>
  /\ \E loc \in SourceLocs, retVal \in Operands \cup { NULL, Omitted } :
    /\ inst' = SpirvReturn(loc, DefaultArg(retVal, NULL))
    /\ args' = [ loc |-> loc, retVal |-> retVal ]
    /\ last' = NoCall

NewBitFieldExtract ==
  /\ ~Constructed
  /\ UNCHANGED << block, peer >>
  /\ \E ty \in ResultTypes, id \in ResultIds, loc \in SourceLocs,
     base \in Operands, offset \in Operands, count \in Operands,
     isSignedArg \in BOOLEAN :
    /\ inst' = SpirvBitFieldExtract(ty, id, loc, base, offset, count,
                                    isSignedArg)
    /\ args' = [ resultType |-> ty, resultId |-> id, loc |-> loc,
                 base |-> base, offset |-> offset, count |-> count,
                 isSigned |-> isSignedArg ]
    /\ last' = NoCall

NewLeaf ==
  /\ ~Constructed
  /\ UNCHANGED << block, peer >>
  /\ \E c \in OtherLeafClasses, loc \in SourceLocs :
    \E ty \in IF c \in ResultClasses THEN ResultTypes ELSE { NoType },
       id \in IF c \in ResultClasses \/ c = "SpirvExtInstImport"
              THEN ResultIds ELSE { 0 } :
      /\ inst' = LeafInstruction(c, ty, id, loc)
      /\ args' = [ resultType |-> ty, resultId |-> id, loc |-> loc ]
      /\ last' = NoCall

NewForeign ==
  /\ ~Constructed
  /\ UNCHANGED << block, peer >>
  /\ \E n \in ForeignKindNames, loc \in SourceLocs, id \in ResultIds :
    /\ inst' = SpirvInstruction("other", IK(n), "Op" \o n, NoType, id, loc)
    /\ args' = [ kind |-> IK(n), opcode |-> "Op" \o n, resultType |-> NoType,
                 resultId |-> id, loc |-> loc ]
    /\ last' = NoCall

----------------------------------------------------------------------------
(* Actions: a collaborator calls predicates or an accessor on inst.        *)

\* A collaborator classifies inst: llvm::isa<c>(inst), that is
\* c::classof(inst), for every class c of the header.
Classify ==
  /\ Constructed
  /\ last' = [ call |-> "classof",
               ret |-> [ c \in Classes |-> classof(c, getKind(inst)) ] ]
  /\ UNCHANGED << inst, args, block, peer >>

GetKind ==
  /\ Constructed
  /\ last' = [ call |-> "getKind", ret |-> getKind(inst) ]
  /\ UNCHANGED << inst, args, block, peer >>

\* inst->invokeVisitor(v): visited lists the classes whose visitor method
\* ran.
InvokeVisitor ==
  /\ inst.cls \in LeafClasses
  /\ last' = [ call |-> "invokeVisitor", visited |-> invokeVisitor(inst) ]
  /\ UNCHANGED << inst, args, block, peer >>

\* A collaborator reads an instruction through all its accessors.
ReadOperands ==
  /\ Constructed
  /\ last' = [ call |-> "readOperands", acc |-> ReadBack(inst) ]
  /\ UNCHANGED << inst, args, block, peer >>

IsSigned ==
  /\ inst.cls = "SpirvBitFieldExtract"
  /\ last' = [ call |-> "isSigned", ret |-> isSigned(inst) ]
  /\ UNCHANGED << inst, args, block, peer >>

GetResultTypeId ==
  /\ Constructed
  /\ last' = [ call |-> "getResultTypeId", ret |-> getResultTypeId(inst) ]
  /\ UNCHANGED << inst, args, block, peer >>

\* A collaborator reads the three memory-semantics accessors of an atomic.
ReadMemorySemantics ==
  /\ inst.cls = "SpirvAtomic"
  /\ last' = [ call |-> "memorySemantics",
               sem |-> getMemorySemantics(inst),
               equal |-> getMemorySemanticsEqual(inst),
               unequal |-> getMemorySemanticsUnequal(inst) ]
  /\ UNCHANGED << inst, args, block, peer >>

GetResultId ==
  /\ Constructed
  /\ last' = [ call |-> "getResultId", ret |-> getResultId(inst) ]
  /\ UNCHANGED << inst, args, block, peer >>

\* inst->setDebugName(name): the one member function of the header that is
\* not const.
SetDebugName ==
  /\ Constructed
  /\ \E name \in DebugNames \cup { "" } :
    /\ inst' = setDebugName(inst, name)
    /\ last' = [ call |-> "setDebugName", arg |-> name ]
  /\ UNCHANGED << args, block, peer >>

\* inst->getTargetBranches(), on a branch or a conditional branch: the
\* two overrides the header defines.
GetTargetBranches ==
  /\ inst.cls \in { "SpirvBranch", "SpirvBranchConditional" }
  /\ \E r \in getTargetBranches(inst) :
       last' = [ call |-> "getTargetBranches", ret |-> r ]
  /\ UNCHANGED << inst, args, block, peer >>

\* inst->getTargetBranches(), on a switch: the override the header only
\* declares.  The method is const and a call leaves the switch as it was,
\* so the first call on a switch already shows every outcome.
GetSwitchTargetBranches ==
  /\ inst.cls = "SpirvSwitch"
  /\ last = NoCall
  /\ \E r \in getTargetBranches(inst) :
       last' = [ call |-> "getTargetBranches", ret |-> r ]
  /\ UNCHANGED << inst, args, block, peer >>

GetTargetLabelForLiteral ==
  /\ inst.cls = "SpirvSwitch"
  /\ \E lit \in ProbeLiterals :
    /\ last' = [ call |-> "getTargetLabelForLiteral", arg |-> lit,
                 ret |-> getTargetLabelForLiteral(inst, lit) ]
    /\ UNCHANGED << inst, args, block, peer >>

HasValue ==
  /\ inst.cls = "SpirvAtomic"
  /\ last' = [ call |-> "hasValue", ret |-> hasValue(inst) ]
  /\ UNCHANGED << inst, args, block, peer >>

HasComparator ==
  /\ inst.cls = "SpirvAtomic"
  /\ last' = [ call |-> "hasComparator", ret |-> hasComparator(inst) ]
  /\ UNCHANGED << inst, args, block, peer >>

\* A collaborator calls getX() on an optional field x of inst without
\* looking at hasX() first; has records what hasX() would have answered.
\* The call aborts the program or returns a value.
GetOptional ==
  /\ inst.cls \in Classes
  /\ \E x \in OptionalFields(inst.cls) :
       LET out == GetField(inst, x)
           result == [ call |-> "getOptional", field |-> x,
                       has |-> HasField(inst, x) ]
       IN \/ /\ out.mayAbort
             /\ last' = Extend(result, [ fatal |-> TRUE ])
          \/ \E v \in out.vals :
               last' = Extend(result, [ fatal |-> FALSE, ret |-> v ])
  /\ UNCHANGED << inst, args, block, peer >>

\* A collaborator reads the presence predicate of every optional slot of an
\* image instruction, and its operands mask.
ImageOpPresence ==
  /\ inst.cls = "SpirvImageOp"
  /\ last' = [ call |-> "imageOperands",
               has |-> [ slot \in ImageSlots |-> ImageOpHasSlot(inst, slot) ],
               mask |-> getImageOperandsMask(inst) ]
  /\ UNCHANGED << inst, args, block, peer >>

----------------------------------------------------------------------------

Init ==
  /\ inst = NoInst
  /\ args = NoArgs
  /\ last = NoCall
  /\ block = << >>
  /\ peer = NoInst

Next ==
  \/ NewBranch
  \/ NewBranchConditional
  \/ NewSwitch
  \/ NewAtomic1
  \/ NewAtomic2
  \/ NewImageOp
  \/ NewExecutionMode
  \/ NewDecoration
  \/ NewVariable
  \/ NewReturn
  \/ NewBitFieldExtract
  \/ NewLeaf
  \/ NewForeign
  \/ Classify
  \/ GetKind
  \/ InvokeVisitor
  \/ ReadOperands
  \/ IsSigned
  \/ GetResultTypeId
  \/ ReadMemorySemantics
  \/ GetResultId
  \/ SetDebugName
  \/ GetTargetBranches
  \/ GetTargetLabelForLiteral
  \/ HasValue
  \/ GetOptional
  \/ HasComparator
  \/ ImageOpPresence

Spec == Init /\ [][Next]_vars

----------------------------------------------------------------------------
(* A switch and its target branches.  What a caller can read through the   *)
(* returned ArrayRef grows with the table, so the call on a switch is      *)
(* followed in a specification of its own.                                 *)

SwitchNext ==
  \/ NewSwitch
  \/ GetSwitchTargetBranches

SwitchSpec == Init /\ [][SwitchNext]_vars

----------------------------------------------------------------------------
(* Two instructions and their debug names.                                 *)

\* The classes of the two instructions.
PairClasses == { "SpirvKill", "SpirvLoad" }

\* The builder constructs two instructions.
NewPair ==
  /\ ~Constructed
  /\ \E c \in PairClasses, d \in PairClasses, loc \in SourceLocs :
    \E id \in IF c \in ResultClasses THEN ResultIds ELSE { 0 },
       pid \in IF d \in ResultClasses THEN ResultIds ELSE { 0 } :
      /\ inst' = LeafInstruction(c, IF c \in ResultClasses THEN "float"
                                                           ELSE NoType,
                                 id, loc)
      /\ peer' = LeafInstruction(d, IF d \in ResultClasses THEN "float"
                                                           ELSE NoType,
                                 pid, loc)
      /\ args' = [ resultId |-> id, loc |-> loc ]
      /\ last' = NoCall
  /\ UNCHANGED block

\* peer->setDebugName(name).
SetPeerDebugName ==
  /\ peer.cls # "none"
  /\ \E name \in DebugNames \cup { "" } :
    /\ peer' = setDebugName(peer, name)
    /\ last' = [ call |-> "setPeerDebugName", arg |-> name ]
  /\ UNCHANGED << inst, args, block >>

\* getDebugName() on both instructions.
GetDebugName ==
  /\ Constructed
  /\ peer.cls # "none"
  /\ last' = [ call |-> "getDebugName", ret |-> getDebugName(inst),
               peer |-> getDebugName(peer) ]
  /\ UNCHANGED << inst, args, block, peer >>

NameNext ==
  \/ NewPair
  \/ SetDebugName
  \/ SetPeerDebugName
  \/ GetDebugName

NameSpec == Init /\ [][NameNext]_vars

----------------------------------------------------------------------------
(* The basic block that owns instructions.  It tells where it ends from    *)
(* the classification of the instructions it is given.                     *)

\* The kinds of the instructions the builder appends: the merges, the
\* terminators and three kinds that are neither.
BlockKindNames ==
  { "LoopMerge", "SelectionMerge", "Branch", "BranchConditional", "Kill",
    "Return", "Switch", "Unreachable", "Load", "Store", "BinaryOp" }

\* The block is finished: its last instruction is a terminator.
hasTerminator(b) == Len(b) > 0 /\ SpirvTerminator_classof(b[Len(b)])

\* The block takes an instruction of kind k: it is not finished, and a
\* merge instruction is followed by nothing but a terminator.
addInstruction_pre(b, k) ==
  /\ ~hasTerminator(b)
  /\ Len(b) > 0 /\ SpirvMerge_classof(b[Len(b)]) => SpirvTerminator_classof(k)

addInstruction(b, k) == Append(b, k)

AddInstruction ==
  /\ Len(block) < MaxBlockLen
  /\ \E n \in BlockKindNames :
    /\ addInstruction_pre(block, IK(n))
    /\ block' = addInstruction(block, IK(n))
  /\ UNCHANGED << inst, args, last, peer >>

BlockNext == AddInstruction

BlockSpec == Init /\ [][BlockNext]_vars

----------------------------------------------------------------------------
(* Classification.                                                         *)

\* The instruction has been classified against every class.
Classified == last.call = "classof"

\* C1: SpirvTerminator::classof is true of a kind if and only if the kind
\* is one of Branch, BranchConditional, Kill, Return, Switch, Unreachable:
\* for every value of the enumeration, and for every instruction that has
\* been classified.
C1_TerminatorClassofIsTheSixKinds ==
  LET six == { "Branch", "BranchConditional", "Kill", "Return", "Switch",
               "Unreachable" }
  IN /\ \A k \in Kinds : SpirvTerminator_classof(k) <=> KindName(k) \in six
     /\ Classified =>
          (last.ret["SpirvTerminator"] <=> KindName(getKind(inst)) \in six)

\* A switch has been classified, and is a terminator.
C1_Witness ==
  /\ Classified
  /\ inst.cls = "SpirvSwitch"
  /\ last.ret["SpirvTerminator"]

\* C2: an instruction of a leaf class satisfies the classof of a family
\* class (SpirvTerminator, SpirvBranching, SpirvMerge,
\* SpirvGroupNonUniformOp, SpirvBitField) if and only if its class derives
\* from that family class.
C2_FamilyClassofFollowsDerivation ==
  (Classified /\ inst.cls \in LeafClasses) =>
    \A a \in FamilyClasses : last.ret[a] <=> DerivesFrom(inst.cls, a)

\* C3: the exact-match classof predicates of the leaf classes partition the
\* kinds they cover: each accepts exactly one kind, no kind is accepted by
\* two of them, and a classified instruction is accepted by the one leaf
\* class that names its kind, if there is one, and by no other.
C3_LeafClassofPartition ==
  /\ \A c \in LeafClasses :
       Cardinality({ k \in Kinds : Leaf_classof(c, k) }) = 1
  /\ \A k \in Kinds :
       Cardinality({ c \in LeafClasses : Leaf_classof(c, k) }) <= 1
  /\ Classified =>
       /\ Cardinality({ c \in LeafClasses : last.ret[c] }) <= 1
       /\ \A c \in LeafClasses :
            last.ret[c] <=> LeafClassKind[c] = KindName(getKind(inst))

\* A bit-field insert has been classified and its own class accepts it.
C3_Witness ==
  /\ Classified
  /\ inst.cls = "SpirvBitFieldInsert"
  /\ last.ret["SpirvBitFieldInsert"]
  /\ ~last.ret["SpirvBitFieldExtract"]

\* C4: SpirvMerge::classof is true for exactly the kinds LoopMerge and
\* SelectionMerge, and no kind satisfies both it and
\* SpirvTerminator::classof.
C4_MergeIsNeverTerminator ==
  /\ \A k \in Kinds :
       /\ SpirvMerge_classof(k)
            <=> KindName(k) \in { "LoopMerge", "SelectionMerge" }
       /\ ~(SpirvMerge_classof(k) /\ SpirvTerminator_classof(k))
  /\ Classified =>
       /\ last.ret["SpirvMerge"]
            <=> KindName(getKind(inst)) \in { "LoopMerge", "SelectionMerge" }
       /\ ~(last.ret["SpirvMerge"] /\ last.ret["SpirvTerminator"])

\* A selection merge has been classified: a merge, not a terminator.
C4_Witness ==
  /\ Classified
  /\ inst.cls = "SpirvSelectionMerge"
  /\ last.ret["SpirvMerge"]
  /\ ~last.ret["SpirvTerminator"]

\* C5: the kinds are totally and strictly ordered by their values; the
\* metadata kinds come in the order Capability, Extension, ExtInstImport,
\* MemoryModel, EntryPoint, ExecutionMode, String, Source, Name,
\* ModuleProcessed, Decoration; and every metadata kind is smaller than
\* every function-structure, merge, terminator and normal kind, so is the
\* kind getKind() returns for a metadata instruction.
C5_MetadataKindsInSectionOrder ==
  LET section == << "Capability", "Extension", "ExtInstImport",
                    "MemoryModel", "EntryPoint", "ExecutionMode", "String",
                    "Source", "Name", "ModuleProcessed", "Decoration" >>
      later == FunctionStructureKindNames \cup MergeKindNames
                 \cup TerminatorKindNames \cup NormalKindNames
  IN /\ \A a, b \in KindNames : a # b => IK(a) # IK(b)
     /\ \A i, j \in 1..Len(section) : i < j => IK(section[i]) < IK(section[j])
     /\ \A m \in MetadataKindNames, n \in later : IK(m) < IK(n)
     /\ (last.call = "getKind" /\ KindName(getKind(inst)) \in MetadataKindNames)
          => \A n \in later : last.ret < IK(n)

\* The kind of a decoration has been read.
C5_Witness ==
  /\ last.call = "getKind"
  /\ inst.cls = "SpirvDecoration"
  /\ last.ret = IK("Decoration")

----------------------------------------------------------------------------
(* Image operands.                                                         *)

\* C6, as claimed: for every optional operand slot X of an image
\* instruction, the texel to write, dref and component included, hasX() is
\* true if and only if the bit of X is set in the mask
\* getImageOperandsMask() returns.
C6_HasIffMaskBit ==
  last.call = "imageOperands" =>
    \A slot \in ImageSlots :
      last.has[slot] <=> ImageSlotBit(slot) \in last.mask

\* C6, amended: for each of the eight slots that are image operands,
\* hasX() is true if and only if the bit of X is set in the mask
\* getImageOperandsMask() returns; dref, component and the texel to write
\* have no bit, and hasDref(), hasComponent() and isImageWrite() are true
\* if and only if that operand was passed non-null.
C6_HasIffMaskBitWhereABitExists ==
  last.call = "imageOperands" =>
    \A slot \in ImageSlots :
      IF ImageSlotBit(slot) \in ImageOperandBits
      THEN last.has[slot] <=> ImageSlotBit(slot) \in last.mask
      ELSE /\ ImageSlotBit(slot) \notin last.mask
           /\ last.has[slot] <=> args.opt[slot] # NULL

\* The presence predicates of an image instruction built with a dref and a
\* bias have been read: hasDref() and hasBias() are true, hasLod() is
\* false, and Bias is the one bit of the mask.
C6_Witness ==
  /\ last.call = "imageOperands"
  /\ last.has["dref"] /\ last.has["bias"] /\ ~last.has["lod"]
  /\ last.mask = { "Bias" }

----------------------------------------------------------------------------
(* Branch targets.                                                         *)

\* The positions of the table of switch i whose literal is v.
C7_Entries(i, v) == { j \in 1..Len(i.targets) : i.targets[j][1] = v }

\* C7: getTargetLabelForLiteral(v) on a switch returns the block the table
\* registers for v (the first one, should the table hold v twice) when v is
\* in the table, and the default block when it is not.
C7_LabelForLiteral ==
  last.call = "getTargetLabelForLiteral" =>
    LET hits == C7_Entries(inst, last.arg)
    IN IF hits = {} THEN last.ret = inst.defaultLabel
       ELSE /\ \E j \in hits : last.ret = inst.targets[j][2]
            /\ \A j \in hits : (\A h \in hits : j <= h)
                                 => last.ret = inst.targets[j][2]

\* The table {1 -> A, 2 -> B, 5 -> A} with default D has been asked for
\* literal 2 and has answered B.
C7_Witness ==
  /\ last.call = "getTargetLabelForLiteral"
  /\ inst.targets = << <<1, "A">>, <<2, "B">>, <<5, "A">> >>
  /\ inst.defaultLabel = "D"
  /\ last.arg = 2
  /\ last.ret = "B"

C9_BranchTargetBranches ==
  last.call = "getTargetBranches" =>
    /\ inst.cls = "SpirvBranch" => last.ret = << inst.targetLabel >>
    /\ inst.cls = "SpirvBranchConditional"
         => last.ret = << inst.trueLabel, inst.falseLabel >>

----------------------------------------------------------------------------
(* Atomics.                                                                *)

\* C10: hasComparator() is true of an atomic if and only if its opcode is
\* OpAtomicCompareExchange, whichever constructor built it.
C10_ComparatorIffCompareExchange ==
  last.call = "hasComparator" =>
    (last.ret <=> getopcode(inst) = OpAtomicCompareExchange)

\* hasComparator() has answered true.
C10_Witness ==
  /\ last.call = "hasComparator"
  /\ last.ret
  /\ inst.comparator # NULL

\* C11: hasValue() is false of an atomic only when its opcode is a load, an
\* increment, a decrement, a flag clear or a flag test-and-set; it is true
\* of every atomic whose opcode takes a value, compare-exchange included.
C11_ValueAbsentOnlyForNoValueOps ==
  last.call = "hasValue" =>
    /\ ~last.ret => getopcode(inst) \in AtomicNoValueOps
    /\ getopcode(inst) \in AtomicValueOps \cup { OpAtomicCompareExchange }
         => last.ret

\* hasValue() has answered true on a store.
C11_Witness ==
  /\ last.call = "hasValue"
  /\ getopcode(inst) = "OpAtomicStore"
  /\ last.ret

\* C12: a compare-exchange atomic was built by the constructor that takes a
\* comparator, from a non-null value and a non-null comparator, and holds
\* both: no compare-exchange without a value or a comparator exists.
C12_NoCompareExchangeWithoutOperands ==
  inst.cls = "SpirvAtomic" /\ getopcode(inst) = OpAtomicCompareExchange =>
    /\ "comparator" \in DOMAIN args
    /\ args.value # NULL /\ args.comparator # NULL
    /\ getValue(inst) # NULL /\ getComparator(inst) # NULL

\* A compare-exchange has been constructed.
C12_Witness ==
  /\ inst.cls = "SpirvAtomic"
  /\ getopcode(inst) = OpAtomicCompareExchange
  /\ getComparator(inst) = "%b"

----------------------------------------------------------------------------
(* Optional fields.                                                        *)

\* C13: getX() on an optional field whose hasX() is false aborts the
\* program, and never returns a value.
C13_GetAbsentIsFatal ==
  last.call = "getOptional" /\ ~last.has => last.fatal

\* C14: isMemberDecoration() is true of a decoration if and only if its
\* constructor was given a member index, and getMemberIndex() then returns
\* that index.
C14_MemberIndexRoundTrip ==
  last.call = "getOptional" /\ last.field = "memberIndex" =>
    /\ last.has <=> args.index.hasVal
    /\ last.has => ~last.fatal /\ last.ret = args.index.val

\* getMemberIndex() has returned the member index 0 a decoration was
\* constructed with.
C14_Witness ==
  /\ last.call = "getOptional"
  /\ last.field = "memberIndex"
  /\ args.index = Some(0)
  /\ last.has
  /\ ~last.fatal
  /\ last.ret = 0

----------------------------------------------------------------------------
(* Mutation after construction.                                            *)

\* C15: once an instruction is constructed, no call changes its kind, its
\* opcode, its result type, its result identifier, its source location or
\* its operands: a step changes no field but the debug name.
C15_OnlyDebugNameChanges ==
  [][ Constructed =>
        /\ DOMAIN inst' = DOMAIN inst
        /\ \A f \in DOMAIN inst \ { "debugName" } : inst'[f] = inst[f] ]_vars

\* The debug name of a switch has been set.
C15_Witness ==
  /\ inst.cls = "SpirvSwitch"
  /\ last.call = "setDebugName"
  /\ getDebugName(inst) = "x"
  /\ Len(inst.targets) = MaxCases

\* C16 as claimed: no operation of the header assigns an identifier, so an
\* identifier that is 0 until one is assigned is 0 whenever it is read.
C16_IdentifierZeroUntilAssigned ==
  last.call = "getResultId" => last.ret = 0

\* C16 as amended: getResultId() returns the result identifier the
\* constructor was given, 0 where the constructor takes none, whatever
\* calls were made since.
C16_ResultIdIsConstructorArgument ==
  last.call = "getResultId" =>
    last.ret = IF "resultId" \in DOMAIN args THEN args.resultId ELSE 0

\* getResultId() has returned a non-zero identifier given at construction,
\* after the debug name was set.
C16_Witness ==
  /\ last.call = "getResultId"
  /\ last.ret = MaxResultId
  /\ args.resultId = MaxResultId
  /\ getDebugName(inst) = "x"

----------------------------------------------------------------------------
(* Visitor dispatch.                                                       *)

\* C17: invokeVisitor on an instruction of any class of the header invokes
\* one visitor method, the one of the instruction's own class; for every
\* leaf class the override that runs is the class's own.
C17_VisitorDispatchIsExact ==
  /\ \A c \in LeafClasses : FinalOverrider(c) = c
  /\ last.call = "invokeVisitor" => last.visited = << inst.cls >>

\* A switch, three levels below SpirvInstruction, has been visited.
C17_Witness ==
  /\ last.call = "invokeVisitor"
  /\ inst.cls = "SpirvSwitch"
  /\ last.visited = << "SpirvSwitch" >>

----------------------------------------------------------------------------
(* Reading back what the constructor was given.                            *)

\* An operand or flag the caller supplied: a parameter left to its default
\* was not supplied, and a comparator is an operand of no atomic opcode
\* but OpAtomicCompareExchange.
C18_Supplied(p) ==
  /\ p \in { "initializerId", "retVal" } => args[p] # Omitted
  /\ (p = "comparator" /\ inst.cls = "SpirvAtomic")
       => args.opcode = OpAtomicCompareExchange

----------------------------------------------------------------------------
(* Variables and returns.                                                  *)

\* C19: hasInitializer() is true of a variable if and only if
\* getInitializer() returns a non-null instruction, and it is false of a
\* variable constructed without an initializer argument.
C19_InitializerPresence ==
  last.call = "getOptional" /\ last.field = "initializer" =>
    /\ ~last.fatal
    /\ last.has <=> last.ret # NULL
    /\ args.initializerId = Omitted => ~last.has

\* A variable constructed without an initializer argument has been read.
C19_Witness ==
  /\ last.call = "getOptional"
  /\ last.field = "initializer"
  /\ args.initializerId = Omitted
  /\ ~last.has
  /\ last.ret = NULL

\* C20: Kill, Return and Unreachable satisfy the classof of SpirvTerminator
\* and not the one of SpirvBranching, from which none of them derives; and
\* hasReturnValue() is true of a return if and only if it was constructed
\* with a non-null return value.
C20_PlainTerminators ==
  /\ \A n \in { "Kill", "Return", "Unreachable" } :
       SpirvTerminator_classof(IK(n)) /\ ~SpirvBranching_classof(IK(n))
  /\ \A c \in { "SpirvKill", "SpirvReturn", "SpirvUnreachable" } :
       DerivesFrom(c, "SpirvTerminator") /\ ~DerivesFrom(c, "SpirvBranching")
  /\ Classified /\ inst.cls \in { "SpirvKill", "SpirvReturn",
                                   "SpirvUnreachable" } =>
       last.ret["SpirvTerminator"] /\ ~last.ret["SpirvBranching"]
  /\ last.call = "getOptional" /\ last.field = "returnValue" =>
       (last.has <=> args.retVal \notin { NULL, Omitted })

\* A return constructed without a value has been asked for its value.
C20_Witness ==
  /\ last.call = "getOptional"
  /\ last.field = "returnValue"
  /\ inst.cls = "SpirvReturn"
  /\ args.retVal = Omitted
  /\ ~last.has

----------------------------------------------------------------------------
(* Basic blocks.                                                           *)

\* C21: whatever instructions are appended to a block, the block holds at
\* most one merge instruction and at most one terminator, a terminator is
\* the last instruction, a merge instruction is the last instruction or
\* the one right before the terminator, and a finished block holds exactly
\* one terminator.
C21_BlockShape ==
  LET n == Len(block)
      six == { "Branch", "BranchConditional", "Kill", "Return", "Switch",
               "Unreachable" }
      T == { j \in 1..n : KindName(block[j]) \in six }
      M == { j \in 1..n :
               KindName(block[j]) \in { "LoopMerge", "SelectionMerge" } }
  IN /\ Cardinality(M) <= 1
     /\ Cardinality(T) <= 1
     /\ \A j \in T : j = n
     /\ \A j \in M : j = n \/ (j = n - 1 /\ n \in T)
     /\ hasTerminator(block) => Cardinality(T) = 1

\* A block ends in a selection merge followed by a conditional branch.
C21_Witness ==
  /\ Len(block) = 3
  /\ KindName(block[1]) = "Load"
  /\ KindName(block[2]) = "SelectionMerge"
  /\ KindName(block[3]) = "BranchConditional"
  /\ hasTerminator(block)

----------------------------------------------------------------------------
(* The kind set and the classes.                                           *)

\* The leaf classes whose classof accepts kind k and that have a dispatch
\* entry point of their own.
C22_ClassesOfKind(k) ==
  { c \in LeafClasses : Leaf_classof(c, k) /\ FinalOverrider(c) = c }

\* C22 as claimed: every kind of the enumeration, Name, Type and Constant
\* included, is accepted by the classof of a concrete class that has its own
\* dispatch entry point.
C22_EveryKindHasAClass ==
  /\ \A k \in Kinds : C22_ClassesOfKind(k) # {}
  /\ Classified => \E c \in LeafClasses : last.ret[c]

\* C22 as amended: every kind but Name, Type and Constant is accepted by the
\* classof of exactly one concrete class, which has its own dispatch entry
\* point; no class of the header accepts Name, Type or Constant.
C22_KindsButThreeHaveAClass ==
  /\ \A k \in Kinds :
       IF KindName(k) \in { "Name", "Type", "Constant" }
       THEN \A c \in Classes : ~classof(c, k)
       ELSE Cardinality(C22_ClassesOfKind(k)) = 1
  /\ Classified =>
       ((\E c \in LeafClasses : last.ret[c])
          <=> KindName(getKind(inst)) \notin { "Name", "Type", "Constant" })

\* An instruction of kind Constant has been classified: no class accepts it.
C22_Witness ==
  /\ Classified
  /\ KindName(getKind(inst)) = "Constant"
  /\ \A c \in Classes : ~last.ret[c]

----------------------------------------------------------------------------
(* Group non-uniform operations and bit-field extracts.                    *)

\* C23: SpirvGroupNonUniformOp::classof is true of exactly the kinds
\* GroupNonUniformBinaryOp, GroupNonUniformElect and GroupNonUniformUnaryOp,
\* which are three consecutive values of the enumeration.
C23_GroupNonUniformRange ==
  LET three == { "GroupNonUniformBinaryOp", "GroupNonUniformElect",
                 "GroupNonUniformUnaryOp" }
  IN /\ \A k \in Kinds :
          SpirvGroupNonUniformOp_classof(k) <=> KindName(k) \in three
     /\ IK("GroupNonUniformElect") = IK_GroupNonUniformBinaryOp + 1
     /\ IK_GroupNonUniformUnaryOp = IK_GroupNonUniformBinaryOp + 2
     /\ Classified =>
          (last.ret["SpirvGroupNonUniformOp"]
             <=> KindName(getKind(inst)) \in three)

\* A group non-uniform elect has been classified as a group non-uniform
\* operation.
C23_Witness ==
  /\ Classified
  /\ inst.cls = "SpirvNonUniformElect"
  /\ last.ret["SpirvGroupNonUniformOp"]

\* C24: isSigned() is non-zero on a bit-field extract if and only if its
\* opcode is OpBitFieldSExtract, which is so exactly when it was
\* constructed with isSigned true; constructed with isSigned false, its
\* opcode is OpBitFieldUExtract.
C24_IsSignedFollowsOpcode ==
  last.call = "isSigned" =>
    /\ last.ret # 0 <=> getopcode(inst) = "OpBitFieldSExtract"
    /\ last.ret # 0 <=> args.isSigned
    /\ ~args.isSigned => getopcode(inst) = "OpBitFieldUExtract"

\* isSigned() has answered on an extract constructed unsigned.
C24_Witness ==
  /\ last.call = "isSigned"
  /\ ~args.isSigned
  /\ last.ret = 0
  /\ getopcode(inst) = "OpBitFieldUExtract"

----------------------------------------------------------------------------
(* Debug names.                                                            *)

\* C25: the debug name of a newly constructed instruction is empty;
\* setDebugName makes the debug name of the instruction it is called on its
\* argument and leaves the other instruction as it was; getDebugName()
\* returns the debug name and changes nothing.  The name read is therefore
\* the argument of the most recent setDebugName on that instruction.
C25_DebugNameIsLastSet ==
  [][ /\ ~Constructed /\ inst'.cls # "none" =>
           getDebugName(inst') = "" /\ getDebugName(peer') = ""
      /\ Constructed =>
           /\ last'.call = "setDebugName" =>
                getDebugName(inst') = last'.arg /\ peer' = peer
           /\ last'.call = "setPeerDebugName" =>
                getDebugName(peer') = last'.arg /\ inst' = inst
           /\ last'.call = "getDebugName" =>
                /\ last'.ret = getDebugName(inst)
                /\ last'.peer = getDebugName(peer)
                /\ inst' = inst /\ peer' = peer ]_vars

\* Two instructions carry different debug names, and both have been read.
C25_Witness ==
  /\ last.call = "getDebugName"
  /\ last.ret = "y"
  /\ last.peer = "x"
  /\ getDebugName(inst) = "y"
  /\ getDebugName(peer) = "x"

----------------------------------------------------------------------------
(* Result type identifiers and memory semantics.                           *)

\* C26: getResultTypeId() returns 0 on every instruction, whatever its
\* kind, its result type and its result identifier.
C26_ResultTypeIdIsZero ==
  last.call = "getResultTypeId" => last.ret = 0

\* getResultTypeId() has been called on an instruction that has a result
\* type and a non-zero result identifier.
C26_Witness ==
  /\ last.call = "getResultTypeId"
  /\ last.ret = 0
  /\ getResultType(inst) = "float"
  /\ getResultId(inst) = MaxResultId

\* C27: on an atomic, getMemorySemanticsEqual() equals getMemorySemantics()
\* and getMemorySemanticsUnequal() returns the unequal semantics stored
\* apart from it; on a compare-exchange the two are the equal and the
\* unequal semantics the constructor was given, in that order.
C27_MemorySemantics ==
  last.call = "memorySemantics" =>
    /\ last.equal = last.sem
    /\ last.unequal = inst.memorySemanticUnequal
    /\ getopcode(inst) = OpAtomicCompareExchange =>
         /\ last.equal = args.semanticsEqual
         /\ last.unequal = args.semanticsUnequal

\* The semantics of a compare-exchange constructed with different equal
\* and unequal semantics have been read.
C27_Witness ==
  /\ last.call = "memorySemantics"
  /\ getopcode(inst) = OpAtomicCompareExchange
  /\ args.semanticsEqual = "Acquire"
  /\ args.semanticsUnequal = "MaskNone"
  /\ last.equal = "Acquire"
  /\ last.unequal = "MaskNone"

====
